---- MODULE Spec2Model ----
(***************************************************************************)
(* Model of loopia_ddns.py: the dynamic-DNS daemon of LoopiaUpdater and    *)
(* main().  The state is main()'s configuration and locals, the two maps   *)
(* of LoopiaUpdater (current_ips, zone_record_ids), the locals of          *)
(* get_public_ip, update_all_records and update_dns_record, and the        *)
(* program counter of the single thread.  History variables (calls,        *)
(* ips_before, ids_before, resolution, first_ok, attempted, unapplied)     *)
(* record what was done; no action reads them.  Environment variables      *)
(* (held, created, faithful, stable) describe the provider and the         *)
(* IP-echo services; they bound what the remote calls may answer.          *)
(*                                                                         *)
(* Representation of Python values:                                        *)
(*   - None as an IP is the string "None"; None as a record id is NoneId;  *)
(*   - a configuration value is a record [kind, chars, fields, num]:       *)
(*     kind "absent" (get_value_by_key gives None), "str" (a string, as    *)
(*     its characters), "csv" (a string, as its comma-separated fields,    *)
(*     which is what str.split(',') returns) or "int" (a JSON number).     *)
(***************************************************************************)
EXTENDS Integers, Sequences, FiniteSets, TLC

\* ------------------------------------------------------------------ bounds
\* Longest subdomain list drawn for LOOPIA_SUBDOMAINS.
MaxSubs == 2
\* Longest list of records a getZoneRecords response carries.
MaxRecords == 2

\* ------------------------------------------------------- values of the run
Labels == {"www", "@"}
IPs == {"1.1.1.1", "2.2.2.2"}
RecordIds == {41, 42}
None == "None"
NoneId == -1
\* len(ip_services)
NumServices == 3

Range(f) == {f[i] : i \in DOMAIN f}

\* --------------------------------------------------------- configuration
Absent == [kind |-> "absent", chars |-> <<>>, fields |-> <<>>, num |-> 0]
Str(cs) == [kind |-> "str", chars |-> cs, fields |-> <<>>, num |-> 0]
Csv(fs) == [kind |-> "csv", chars |-> <<>>, fields |-> fs, num |-> 0]
Num(n) == [kind |-> "int", chars |-> <<>>, fields |-> <<>>, num |-> n]

\* Python truthiness of a configuration value: None, "" and 0 are falsy.
\* The empty string splits into the single empty field.
Truthy(v) ==
    CASE v.kind = "absent" -> FALSE
      [] v.kind = "str" -> v.chars # <<>>
      [] v.kind = "csv" -> v.fields # <<"">>
      [] v.kind = "int" -> v.num # 0

Digits == <<"0", "1", "2", "3", "4", "5", "6", "7", "8", "9">>
IsDigit(c) == \E d \in DOMAIN Digits : Digits[d] = c
DigitVal(c) == (CHOOSE d \in DOMAIN Digits : Digits[d] = c) - 1

RECURSIVE DecimalValue(_, _)
DecimalValue(cs, acc) ==
    IF cs = <<>> THEN acc
    ELSE DecimalValue(Tail(cs), 10 * acc + DigitVal(Head(cs)))

AllDigits(cs) == cs # <<>> /\ \A i \in DOMAIN cs : IsDigit(cs[i])

\* int(v): [raised, value].  A string is an optional sign and decimal digits;
\* anything else raises ValueError.  A number is itself.
PyInt(v) ==
    IF v.kind = "int" THEN [raised |-> FALSE, value |-> v.num]
    ELSE IF v.kind = "str" /\ AllDigits(v.chars)
        THEN [raised |-> FALSE, value |-> DecimalValue(v.chars, 0)]
    ELSE IF v.kind = "str" /\ v.chars # <<>> /\ Head(v.chars) \in {"-", "+"}
            /\ AllDigits(Tail(v.chars))
        THEN [raised |-> FALSE,
              value |-> IF Head(v.chars) = "-"
                        THEN 0 - DecimalValue(Tail(v.chars), 0)
                        ELSE DecimalValue(Tail(v.chars), 0)]
    ELSE [raised |-> TRUE, value |-> 0]

\* time.sleep(int(seconds_interval)) completes: int() does not raise and the
\* length is not negative (time.sleep raises ValueError on a negative one).
SleepCompletes(v) == ~PyInt(v).raised /\ PyInt(v).value >= 0

RECURSIVE get_value_by_key(_, _)
get_value_by_key(data_list, target_key) ==
    IF data_list = <<>> THEN Absent
    ELSE IF Head(data_list).key = target_key THEN Head(data_list).value
    ELSE get_value_by_key(Tail(data_list), target_key)

Keys == <<"LOOPIA_PASSWORD", "LOOPIA_USERNAME", "LOOPIA_DOMAIN",
          "LOOPIA_SUBDOMAINS", "LOOPIA_UPDATE_INTERVAL">>

CredentialInputs == {Absent, Str(<<>>), Str(<<"x">>)}
SubdomainLists == UNION {[1..n -> Labels] : n \in 1..MaxSubs}
SubdomainInputs == {Absent, Csv(<<"">>)} \cup {Csv(fs) : fs \in SubdomainLists}
IntervalInputs ==
    {Absent, Num(0), Str(<<"6", "0">>), Str(<<"0">>), Str(<<"-", "5">>),
     Str(<<"a", "b", "c">>)}

RECURSIVE ConfigItems(_, _)
\* The response of the configuration service: one item per key that is set.
ConfigItems(f, i) ==
    IF i > Len(Keys) THEN <<>>
    ELSE IF f[Keys[i]].kind = "absent" THEN ConfigItems(f, i + 1)
    ELSE <<[key |-> Keys[i], value |-> f[Keys[i]]]>> \o ConfigItems(f, i + 1)

ConfigResponses ==
    {ConfigItems([k \in Range(Keys) |->
                    CASE k = "LOOPIA_PASSWORD" -> p
                      [] k = "LOOPIA_USERNAME" -> u
                      [] k = "LOOPIA_DOMAIN" -> d
                      [] k = "LOOPIA_SUBDOMAINS" -> s
                      [] k = "LOOPIA_UPDATE_INTERVAL" -> t], 1) :
        p \in CredentialInputs, u \in CredentialInputs, d \in CredentialInputs,
        s \in SubdomainInputs, t \in IntervalInputs}

\* -------------------------------------------------------------- the state
VARIABLES
    pc,               \* where the thread is
    result,           \* main: the configuration response
    seconds_interval, \* main: LOOPIA_UPDATE_INTERVAL
    subdomains,       \* LoopiaUpdater.subdomains
    current_ips,      \* LoopiaUpdater.current_ips
    zone_record_ids,  \* LoopiaUpdater.zone_record_ids
    svc,              \* get_public_ip: position of the for loop, 0 outside it
    response,         \* get_public_ip: what the service queried last answered
    new_ip,           \* update_all_records: new_ip
    idx,              \* update_all_records: position of the for loop
    results,          \* update_all_records: results / main: results
    record_id,        \* update_dns_record: record_id
    failed,           \* main: failed
    calls,            \* history: Writer invocations and provider calls of the cycle
    ips_before,       \* history: current_ips when the cycle started
    ids_before,       \* history: zone_record_ids when the cycle started
    resolution,       \* history: "none", or how the cycle's get_public_ip ended
    first_ok,         \* history: "first" from the first successful resolution
                      \*   since startup to the end of its cycle; "before", "later"
    attempted,        \* history: the subdomains update_dns_record has returned for
    unapplied,        \* history: the pairs <<subdomain, IP>> whose latest
                      \*   update_dns_record returned False
    held,             \* provider, if faithful: the subdomains it holds a
                      \*   record for
    created,          \* provider, if faithful: the subdomains it created a
                      \*   record for on an addZoneRecord of this process
    faithful,         \* provider: nobody else changes the records, and a lookup
                      \*   that returns reports the records held; otherwise
                      \*   the records are not tracked and any lookup may
                      \*   return anything
    stable            \* environment: None, or the IP every resolution returns
                      \*   from now on, with every provider call succeeding

vars == <<pc, result, seconds_interval, subdomains, current_ips, zone_record_ids,
          svc, response, new_ip, idx, results, record_id, failed, calls,
          ips_before, ids_before, resolution, first_ok, attempted, unapplied,
          held, created, faithful, stable>>

config == <<result, seconds_interval, subdomains>>
maps == <<current_ips, zone_record_ids>>
history == <<ips_before, ids_before, resolution, first_ok>>
resolver == <<svc, response>>
environment == <<held, created, faithful, stable>>

\* No service has been queried.
NoResponse == [kind |-> "none", ip |-> None]

InitProgram ==
    /\ pc = "main"
    /\ result \in ConfigResponses
    /\ seconds_interval = Absent
    /\ subdomains = <<>>
    /\ current_ips = <<>>
    /\ zone_record_ids = <<>>
    /\ svc = 0
    /\ response = NoResponse
    /\ new_ip = None
    /\ idx = 0
    /\ results = <<>>
    /\ record_id = 0
    /\ failed = <<>>
    /\ calls = <<>>
    /\ ips_before = <<>>
    /\ ids_before = <<>>
    /\ resolution = "none"
    /\ first_ok = "before"
    /\ attempted = {}
    /\ unapplied = {}

\* The environment of the process: nothing is assumed of the provider or of
\* the IP-echo services.
Init ==
    /\ InitProgram
    /\ held = {}
    /\ created = {}
    /\ faithful = FALSE
    /\ stable = None

\* ------------------------------------------------------------------ main
\* main() up to the while loop, with LoopiaUpdater.__init__.
Startup ==
    /\ pc = "main"
    /\ LET password == get_value_by_key(result, "LOOPIA_PASSWORD")
           username == get_value_by_key(result, "LOOPIA_USERNAME")
           domain == get_value_by_key(result, "LOOPIA_DOMAIN")
           subs == get_value_by_key(result, "LOOPIA_SUBDOMAINS")
           interval == get_value_by_key(result, "LOOPIA_UPDATE_INTERVAL")
           split_sub == subs.fields
       IN IF ~(Truthy(username) /\ Truthy(password) /\ Truthy(domain)
               /\ Truthy(subs) /\ Truthy(interval))
             \/ split_sub = <<>>
          THEN /\ pc' = "config_error"
               /\ UNCHANGED <<seconds_interval, subdomains, current_ips,
                              zone_record_ids>>
          ELSE /\ pc' = "cycle"
               /\ seconds_interval' = interval
               /\ subdomains' = split_sub
               /\ current_ips' = [s \in Range(split_sub) |-> None]
               /\ zone_record_ids' = [s \in Range(split_sub) |-> NoneId]
    /\ UNCHANGED <<result, resolver, new_ip, idx, results, record_id, calls,
                   history, attempted, unapplied, environment, failed>>

\* ------------------------------------------------------- get_public_ip
\* What one IP-echo service answers: the request raises (timeout, connection
\* error), the status is not 200, the status is 200 and the body is the IP as
\* plain text (response.json() raises), or it is 200 and a JSON object with
\* the IP under 'ip'.
ServiceResponses ==
    {[kind |-> "exception", ip |-> None], [kind |-> "non200", ip |-> None]}
    \cup {[kind |-> k, ip |-> x] : k \in {"text", "json"}, x \in IPs}

\* What the service queried now may answer: anything, or, once the
\* environment is stable, the stable IP from the last service at the latest.
ServiceResponsesNow ==
    IF stable = None THEN ServiceResponses
    ELSE {resp \in ServiceResponses :
            \/ resp = [kind |-> "json", ip |-> stable]
            \/ resp.kind # "json" /\ svc < NumServices}

\* Mutant of Succeeds: the status code is not tested.
SucceedsAnyStatus(resp) == resp.kind \in {"json", "non200"}

\* Mutant of Succeeds: the body of a 200 response is taken as the IP whether
\* it is JSON or plain text.
SucceedsAnyBody(resp) == resp.kind \in {"json", "text"}

\* One iteration of get_public_ip returns: the status is 200 and
\* response.json()['ip'] does not raise.
Succeeds(resp) == resp.kind = "json"

\* ------------------------------------------------- update_all_records
\* Mutant of ReturnAllFalse: update_all_records has no except clause, so the
\* exception reaches the except clause of main, which goes on to the sleep.
ReturnAllFalseUncaught ==
    /\ pc' = "sleep"
    /\ results' = results

\* The except clause of update_all_records: every subdomain is reported
\* False and control returns to main.
ReturnAllFalse ==
    /\ pc' = "report"
    /\ results' = [s \in Range(subdomains) |-> FALSE]

\* main calls update_all_records, which calls get_public_ip: the for loop
\* starts at the first service.
EnterCycle ==
    /\ pc = "cycle"
    /\ pc' = "resolve"
    /\ svc' = 1
    /\ response' = NoResponse
    /\ new_ip' = None
    /\ resolution' = "pending"
    /\ first_ok' = IF first_ok = "before" THEN "before" ELSE "later"
    /\ calls' = <<>>
    /\ ips_before' = current_ips
    /\ ids_before' = zone_record_ids
    /\ UNCHANGED <<config, maps, idx, results, record_id, attempted, unapplied, environment, failed>>

\* One iteration of the for loop of get_public_ip.  A service that succeeds
\* ends the loop; after one that does not, the next one is queried, and after
\* the last one the function raises, which the except clause of
\* update_all_records catches.
QueryService ==
    /\ pc = "resolve"
    /\ \E resp \in ServiceResponsesNow :
        /\ response' = resp
        /\ IF Succeeds(resp)
           THEN /\ pc' = "got_ip"
                /\ UNCHANGED <<svc, results, resolution>>
           ELSE IF svc < NumServices
           THEN /\ svc' = svc + 1
                /\ UNCHANGED <<pc, results, resolution>>
           ELSE /\ ReturnAllFalse
                /\ resolution' = "failed"
                /\ svc' = 0
    /\ UNCHANGED <<config, maps, new_ip, idx, record_id, calls, ips_before,
                   ids_before, first_ok, attempted, unapplied, environment, failed>>

\* return response.json()['ip'], and update_all_records starts its loop with
\* an empty results dict.
ReturnIp ==
    /\ pc = "got_ip"
    /\ new_ip' = response.ip
    /\ results' = <<>>
    /\ idx' = 1
    /\ pc' = "loop"
    /\ resolution' = "ok"
    /\ first_ok' = IF first_ok = "before" THEN "first" ELSE first_ok
    /\ svc' = 0
    /\ response' = NoResponse
    /\ UNCHANGED <<config, maps, record_id, calls, ips_before, ids_before,
                   attempted, unapplied, environment, failed>>

\* results[subdomain] = value
SetResult(r, s, v) == [k \in DOMAIN r \cup {s} |-> IF k = s THEN v ELSE r[k]]

\* An entry of the history of the cycle.
Call(op, s, id, ip, status) ==
    [op |-> op, sub |-> s, record_id |-> id, rdata |-> ip, status |-> status]

\* Mutant of NeedsUpdate: a subdomain with no applied IP yet is left alone.
NeedsUpdateKnownOnly(s) == current_ips[s] # None /\ new_ip # current_ips[s]

\* Mutant of NeedsUpdate: every subdomain is written in every cycle.
NeedsUpdateAlways(s) == TRUE

\* new_ip != self.current_ips[subdomain]
NeedsUpdate(s) == new_ip # current_ips[s]

\* The else branch of the loop body: nothing to do for this subdomain.
LoopSkip ==
    /\ pc = "loop"
    /\ idx <= Len(subdomains)
    /\ ~NeedsUpdate(subdomains[idx])
    /\ results' = SetResult(results, subdomains[idx], TRUE)
    /\ idx' = idx + 1
    /\ UNCHANGED <<pc, config, maps, resolver, new_ip, record_id, calls, history,
                   attempted, unapplied, environment, failed>>

\* Mutant of CachedZoneRecordId: the cache is never read.
CachedZoneRecordIdIgnored(s) == 0

\* self.zone_record_ids[subdomain] or 0
CachedZoneRecordId(s) ==
    IF zone_record_ids[s] = NoneId \/ zone_record_ids[s] = 0 THEN 0
    ELSE zone_record_ids[s]

\* The loop body calls update_dns_record, which reads the cached identity.
WriterEnter ==
    /\ pc = "loop"
    /\ idx <= Len(subdomains)
    /\ NeedsUpdate(subdomains[idx])
    /\ LET s == subdomains[idx]
       IN /\ calls' = Append(calls, Call("update_dns_record", s, zone_record_ids[s],
                                          new_ip, "called"))
          /\ IF CachedZoneRecordId(s) = 0
             THEN pc' = "lookup" /\ record_id' = 0
             ELSE pc' = "write" /\ record_id' = CachedZoneRecordId(s)
    /\ UNCHANGED <<config, maps, resolver, new_ip, idx, results, history, attempted,
                   unapplied, environment, failed>>

\* What getZoneRecords answers: the call raises (transport error, or an error
\* list such as ["AUTH_ERROR"], whose first item has no .get), or it returns
\* the records the provider holds for the subdomain, possibly none.
LookupResponses ==
    {[raised |-> TRUE, records |-> <<>>]}
    \cup {[raised |-> FALSE, records |-> rs] :
            rs \in UNION {[1..n -> RecordIds] : n \in 0..MaxRecords}}

\* Mutant of ExistingDnsRecord: what the lookup returned is not looked at.
ExistingDnsRecordNever(resp) == FALSE

\* existing_dns_record = len(response) > 0
ExistingDnsRecord(resp) == Len(resp.records) > 0

\* What the lookup for s may answer now: it does not raise once the
\* environment is stable, and a faithful provider returns records exactly when
\* it holds one for s.
LookupResponsesNow(s) ==
    {resp \in LookupResponses :
        /\ stable # None => ~resp.raised
        /\ (faithful /\ ~resp.raised) => (ExistingDnsRecord(resp) <=> s \in held)}

\* Mutant of AdoptedRecordId: the last record of the response is adopted.
AdoptedRecordIdLast(resp) == resp.records[Len(resp.records)]

\* response[0].get('record_id')
AdoptedRecordId(resp) == resp.records[1]

\* History: the identity of the first record of a response, 0 if it has none.
FirstRecordId(resp) == IF resp.records = <<>> THEN 0 ELSE Head(resp.records)

\* Mutant of ReturnFalse: the except clause of update_dns_record logs the
\* error and reports success.
ReturnFalseAsTrue ==
    /\ results' = SetResult(results, subdomains[idx], TRUE)
    /\ idx' = idx + 1
    /\ pc' = "loop"
    /\ attempted' = attempted \cup {subdomains[idx]}

\* Mutant of ReturnFalse: the call that raised is issued again.
ReturnFalseRetries ==
    /\ results' = results
    /\ idx' = idx
    /\ pc' = pc
    /\ attempted' = attempted

\* Mutant of ReturnFalse: update_dns_record has no except clause, so the
\* exception reaches the except clause of update_all_records.
ReturnFalsePropagates ==
    /\ results' = [s \in Range(subdomains) |-> FALSE]
    /\ idx' = idx
    /\ pc' = "report"
    /\ attempted' = attempted \cup {subdomains[idx]}

\* The except clause of update_dns_record returns False, which the loop of
\* update_all_records stores in results before it goes on to the next subdomain.
ReturnFalse ==
    /\ results' = SetResult(results, subdomains[idx], FALSE)
    /\ idx' = idx + 1
    /\ pc' = "loop"
    /\ attempted' = attempted \cup {subdomains[idx]}

\* History: update_dns_record(s, new_ip) has returned ok.
Unapplied(s, ok) ==
    IF ok THEN unapplied \ {<<s, new_ip>>} ELSE unapplied \cup {<<s, new_ip>>}

\* The cache miss of update_dns_record: getZoneRecords, and the identity of
\* the first record it returns is adopted and cached.  An exception goes to
\* the except clause, which returns False to the loop.
GetZoneRecords ==
    /\ pc = "lookup"
    /\ LET s == subdomains[idx]
       IN /\ \E resp \in LookupResponsesNow(s) :
              IF resp.raised
              THEN /\ calls' = Append(calls, Call("getZoneRecords", s, 0, None, "raised"))
                   /\ ReturnFalse
                   /\ unapplied' = Unapplied(s, FALSE)
                   /\ UNCHANGED <<record_id, zone_record_ids, held>>
              ELSE /\ calls' = Append(calls, Call("getZoneRecords", s, FirstRecordId(resp),
                                                  None, "returned"))
                   /\ pc' = "write"
                   /\ UNCHANGED <<results, idx, attempted, unapplied, held>>
                   /\ IF ExistingDnsRecord(resp)
                      THEN /\ record_id' = AdoptedRecordId(resp)
                           /\ zone_record_ids' =
                                [zone_record_ids EXCEPT ![s] = AdoptedRecordId(resp)]
                      ELSE UNCHANGED <<record_id, zone_record_ids>>
    /\ UNCHANGED <<config, resolver, current_ips, new_ip, history, failed, created,
                   faithful, stable>>

\* What addZoneRecord / updateZoneRecord answers: the success sentinel, any
\* other status string, or the call raises.
WriteStatuses == {"OK", "AUTH_ERROR", "raised"}

\* What the write may answer now, and whether the provider carried it out: a
\* request answered "OK" was carried out, one answered otherwise or whose
\* answer was lost may have been; once the environment is stable the answer
\* is "OK".
WriteOutcomesNow ==
    {o \in [status : WriteStatuses, applied : BOOLEAN] :
        /\ o.status = "OK" => o.applied
        /\ stable # None => o.status = "OK"}

\* Mutant of WriteOp: the record is always created.
WriteOpCreateOnly(id) == "addZoneRecord"

\* if record_id == 0: addZoneRecord, else: updateZoneRecord
WriteOp(id) == IF id = 0 THEN "addZoneRecord" ELSE "updateZoneRecord"

\* Mutant of Confirmed: the status is compared with the wrong sentinel.
ConfirmedLowercase(status) == status = "ok"

\* Mutant of Confirmed: any status the provider returns counts as success.
ConfirmedAnyReturn(status) == status # "raised"

\* status == 'OK'
Confirmed(status) == status = "OK"

\* Mutant of AppliedIps: a confirmed write is recorded for every subdomain.
AppliedIpsEverySubdomain(s, status) ==
    IF status = "OK" THEN [t \in DOMAIN current_ips |-> new_ip] ELSE current_ips

\* Mutant of AppliedIps: the assignment is made whatever the status.
AppliedIpsAnyStatus(s, status) == [current_ips EXCEPT ![s] = new_ip]

\* self.current_ips[subdomain] = new_ip, on a confirmed write only
AppliedIps(s, status) ==
    IF Confirmed(status) THEN [current_ips EXCEPT ![s] = new_ip] ELSE current_ips

\* The rest of update_dns_record: the record is created or updated, the
\* status decides the return value, and the loop stores it in results.
WriteRecord ==
    /\ pc = "write"
    /\ LET s == subdomains[idx]
       IN \E o \in WriteOutcomesNow : LET status == o.status IN
            /\ calls' = Append(calls, Call(WriteOp(record_id), s, record_id, new_ip, status))
            /\ IF status = "raised"
               THEN ReturnFalse /\ UNCHANGED current_ips
               ELSE /\ current_ips' = AppliedIps(s, status)
                    /\ results' = SetResult(results, s, Confirmed(status))
                    /\ idx' = idx + 1
                    /\ pc' = "loop"
                    /\ attempted' = attempted \cup {s}
            /\ unapplied' = Unapplied(s, status = "OK")
            /\ IF faithful /\ WriteOp(record_id) = "addZoneRecord" /\ o.applied
               THEN held' = held \cup {s} /\ created' = created \cup {s}
               ELSE UNCHANGED <<held, created>>
    /\ record_id' = 0
    /\ UNCHANGED <<config, resolver, zone_record_ids, new_ip, history, failed,
                   faithful, stable>>

\* Mutant of LoopReturn: return results is indented into the loop body.
LoopReturnEarly ==
    /\ pc = "loop"
    /\ idx > 1
    /\ pc' = "report"
    /\ UNCHANGED <<config, maps, resolver, new_ip, idx, results, record_id, calls,
                   history, attempted, unapplied, environment, failed>>

\* return results
LoopReturn ==
    /\ pc = "loop"
    /\ idx > Len(subdomains)
    /\ pc' = "report"
    /\ UNCHANGED <<config, maps, resolver, new_ip, idx, results, record_id, calls,
                   history, attempted, unapplied, environment, failed>>

RECURSIVE FailedFrom(_, _, _)
\* [sub for sub, success in results.items() if not success], the dict being in
\* the order in which its keys were first inserted.
FailedFrom(r, subs, seen) ==
    IF subs = <<>> THEN <<>>
    ELSE IF Head(subs) \in seen \/ Head(subs) \notin DOMAIN r
        THEN FailedFrom(r, Tail(subs), seen)
    ELSE (IF r[Head(subs)] THEN <<>> ELSE <<Head(subs)>>)
         \o FailedFrom(r, Tail(subs), seen \cup {Head(subs)})

\* main: the failed subdomains of the cycle are logged.
Report ==
    /\ pc = "report"
    /\ failed' = FailedFrom(results, subdomains, {})
    /\ pc' = "sleep"
    /\ UNCHANGED <<config, maps, resolver, new_ip, idx, results, record_id, calls,
                   history, attempted, unapplied, environment>>

\* time.sleep(int(seconds_interval)), outside the try: what it raises ends
\* the process.
Sleep ==
    /\ pc = "sleep"
    /\ pc' = IF SleepCompletes(seconds_interval) THEN "cycle" ELSE "sleep_raised"
    /\ UNCHANGED <<config, maps, resolver, new_ip, idx, results, record_id, calls,
                   history, attempted, unapplied, environment, failed>>

Next ==
    \/ Startup
    \/ EnterCycle
    \/ QueryService
    \/ ReturnIp
    \/ LoopSkip
    \/ WriterEnter
    \/ GetZoneRecords
    \/ WriteRecord
    \/ LoopReturn
    \/ Report
    \/ Sleep


Spec == Init /\ [][Next]_vars

\* ------------------------------------------------------ a faithful provider
\* The same program against a provider whose records nobody else changes and
\* whose lookups report them; it may hold a record for any subdomain at
\* startup.
InitFaithful ==
    /\ InitProgram
    /\ held \in SUBSET Labels
    /\ created = {}
    /\ faithful = TRUE
    /\ stable = None

FaithfulSpec == InitFaithful /\ [][Next]_vars

\* ----------------------------------------------------- a stable environment
\* A cycle starts as EnterCycle starts it, and from this cycle on every
\* resolution returns the same IP and every provider call succeeds.
Stabilise ==
    /\ pc = "cycle"
    /\ stable = None
    /\ \E x \in IPs : stable' = x
    /\ pc' = "resolve"
    /\ svc' = 1
    /\ response' = NoResponse
    /\ new_ip' = None
    /\ resolution' = "pending"
    /\ first_ok' = IF first_ok = "before" THEN "before" ELSE "later"
    /\ calls' = <<>>
    /\ ips_before' = current_ips
    /\ ids_before' = zone_record_ids
    /\ UNCHANGED <<config, maps, idx, results, record_id, attempted, unapplied,
                   failed, held, created, faithful>>

\* The single thread of main keeps running.
StableSpec == Init /\ [][Next \/ Stabilise]_vars /\ WF_vars(Next)

\* ------------------------------------------------- reading the history
ProviderOps == {"getZoneRecords", "addZoneRecord", "updateZoneRecord"}
WriteOps == {"addZoneRecord", "updateZoneRecord"}

\* The positions of the cycle's history at which update_dns_record was called
\* for s, and at which a provider call for s was issued.
Invocations(s) ==
    {k \in DOMAIN calls : calls[k].op = "update_dns_record" /\ calls[k].sub = s}
ProviderCalls(s) == {k \in DOMAIN calls : calls[k].op \in ProviderOps /\ calls[k].sub = s}

\* The provider answered a create or update for s with the success sentinel.
WriteConfirmed(s) ==
    \E k \in DOMAIN calls :
        calls[k].op \in WriteOps /\ calls[k].sub = s /\ calls[k].status = "OK"

\* update_all_records has returned: the history describes a whole cycle.
CycleDone == resolution # "none" /\ pc \in {"report", "sleep", "cycle", "sleep_raised"}

\* The Target Set holds distinct labels.
Distinct(subs) == \A i, j \in DOMAIN subs : subs[i] = subs[j] => i = j

\* ------------------------------------------------------------------ C1
\* C1: at the end of a cycle whose resolution succeeded, over a Target Set of
\* distinct labels, every subdomain whose applied IP differed from the
\* resolved IP when the cycle started has had update_dns_record called
\* exactly once; if that call returned True its applied IP is the resolved
\* IP, and if it returned False its applied IP is the one it had before the
\* cycle.
C1_ChangedWrittenOnce ==
    (CycleDone /\ resolution = "ok" /\ Distinct(subdomains)) =>
        \A s \in Range(subdomains) :
            ips_before[s] # new_ip =>
                /\ Cardinality(Invocations(s)) = 1
                /\ results[s] => current_ips[s] = new_ip
                /\ ~results[s] => current_ips[s] = ips_before[s]

\* A cycle that moved "@" from one IP to another and failed to move "www".
C1_Witness ==
    /\ CycleDone /\ resolution = "ok"
    /\ subdomains = <<"@", "www">>
    /\ ips_before["@"] = "2.2.2.2" /\ ips_before["www"] = "2.2.2.2"
    /\ new_ip = "1.1.1.1"
    /\ results["@"] /\ ~results["www"]
    /\ current_ips["@"] = "1.1.1.1" /\ current_ips["www"] = "2.2.2.2"

\* ------------------------------------------------------------------ C2
\* C2: in a cycle whose resolution succeeded, a subdomain whose applied IP
\* equalled the resolved IP when the cycle started has no Writer invocation
\* and no provider call (lookup, create, update) in the cycle's history, and
\* once the cycle is done its result is True.
C2_UnchangedNotWritten ==
    resolution = "ok" =>
        \A s \in Range(subdomains) :
            ips_before[s] = new_ip =>
                /\ Invocations(s) = {} /\ ProviderCalls(s) = {}
                /\ CycleDone => (s \in DOMAIN results /\ results[s])

\* A finished cycle in which "www" was already current and "@" was written.
C2_Witness ==
    /\ CycleDone /\ resolution = "ok"
    /\ subdomains = <<"www", "@">>
    /\ ips_before["www"] = new_ip /\ ips_before["@"] # new_ip
    /\ results["www"] /\ ProviderCalls("www") = {} /\ ProviderCalls("@") # {}

\* ------------------------------------------------------------------ C3
\* C3: at the end of a cycle whose resolution succeeded, if subdomain A
\* failed, every other subdomain B has a result, and if B's applied IP
\* differed from the resolved IP, update_dns_record was called for B and a
\* provider call for B was issued, wherever A and B stand in the Target Set.
C3_FailureIsolated ==
    (CycleDone /\ resolution = "ok") =>
        \A a, b \in Range(subdomains) :
            (a # b /\ a \in DOMAIN results /\ ~results[a]) =>
                /\ b \in DOMAIN results
                /\ ips_before[b] # new_ip =>
                     (Invocations(b) # {} /\ ProviderCalls(b) # {})

\* The lookup of the first subdomain raised and the second was then written
\* and confirmed.
C3_Witness ==
    /\ CycleDone /\ resolution = "ok"
    /\ Len(subdomains) = 2 /\ subdomains[1] # subdomains[2]
    /\ ~results[subdomains[1]] /\ results[subdomains[2]]
    /\ \E k \in ProviderCalls(subdomains[1]) : calls[k].status = "raised"
    /\ WriteConfirmed(subdomains[2])

\* ------------------------------------------------------------------ C4
\* C4: when every IP-echo service failed in the cycle, its history holds no
\* Writer invocation and no provider call, both maps are what they were when
\* the cycle started, every result is False, and the thread is at main's
\* report (whose only step leads to the sleep), at the sleep or past it.
C4_ResolutionFailureSkipsCycle ==
    resolution = "failed" =>
        /\ calls = <<>>
        /\ current_ips = ips_before /\ zone_record_ids = ids_before
        /\ \A s \in Range(subdomains) : s \in DOMAIN results /\ ~results[s]
        /\ pc \in {"report", "sleep", "cycle", "sleep_raised"}
        /\ pc = "report" => ENABLED Report

\* A failed resolution after a cycle that had populated both maps, now at the
\* sleep.
C4_Witness ==
    /\ resolution = "failed" /\ pc = "sleep"
    /\ \E s \in Range(subdomains) :
        current_ips[s] \in IPs /\ zone_record_ids[s] \in RecordIds

\* ------------------------------------------------------------------ C5
\* C5 as stated: no lookup is issued for a subdomain for which an earlier
\* write attempt has already returned (over a Target Set of distinct labels).
C5_LookupAtMostOnce ==
    (pc = "lookup" /\ Distinct(subdomains)) => subdomains[idx] \notin attempted

\* C5 as amended: a write attempt issues the lookup if and only if the
\* Record-Identity State of its subdomain is unknown when it starts, so no
\* lookup is issued once the identity is populated: every lookup of the
\* history directly follows an invocation that found the identity unknown,
\* and an invocation that found it unknown is directly followed by a lookup.
C5_LookupIffUnknown ==
    \A k \in DOMAIN calls :
        /\ calls[k].op = "getZoneRecords" =>
            /\ k > 1
            /\ calls[k - 1].op = "update_dns_record"
            /\ calls[k - 1].sub = calls[k].sub
            /\ calls[k - 1].record_id = NoneId
        /\ (calls[k].op = "update_dns_record" /\ calls[k].record_id = NoneId) =>
            IF k = Len(calls) THEN pc = "lookup"
            ELSE calls[k + 1].op = "getZoneRecords" /\ calls[k + 1].sub = calls[k].sub

\* A later write attempt for a subdomain whose identity was populated before
\* the cycle: it was written without any lookup.
C5_Witness ==
    /\ CycleDone
    /\ \E s \in Range(subdomains) :
        /\ s \in attempted /\ ids_before[s] \in RecordIds
        /\ Invocations(s) # {}
        /\ \A k \in ProviderCalls(s) : calls[k].op = "updateZoneRecord"

\* ------------------------------------------------------------------ C6
\* C6: an invocation that finds the identity unknown issues the lookup before
\* any create or update.  A lookup that returned a record is followed by an
\* update addressed by the identity of its first record, which is cached; a
\* lookup that returned no record is followed by a create with identity 0.
\* While the write is still to be issued, the thread is about to issue it.
C6_LookupBeforeWrite ==
    \A k \in DOMAIN calls :
        /\ (calls[k].op \in WriteOps /\ k > 1
                /\ calls[k - 1].op = "update_dns_record") =>
            calls[k - 1].record_id # NoneId
        /\ (calls[k].op = "getZoneRecords" /\ calls[k].status = "returned") =>
            LET s == calls[k].sub
                id == calls[k].record_id
            IN /\ id # 0 => zone_record_ids[s] = id
               /\ IF k = Len(calls)
                  THEN pc = "write" /\ subdomains[idx] = s /\ record_id = id
                  ELSE /\ calls[k + 1].sub = s
                       /\ calls[k + 1].record_id = id
                       /\ calls[k + 1].rdata = new_ip
                       /\ calls[k + 1].op =
                            (IF id # 0 THEN "updateZoneRecord" ELSE "addZoneRecord")

\* Cold start: the lookup for "www" returned record 42 and the update that
\* followed was addressed by 42.
C6_Witness ==
    /\ Len(calls) >= 3
    /\ "www" \in DOMAIN ids_before
    /\ ids_before["www"] = NoneId
    /\ calls[1].op = "update_dns_record" /\ calls[1].sub = "www"
    /\ calls[2].op = "getZoneRecords" /\ calls[2].record_id = 42
    /\ calls[3].op = "updateZoneRecord" /\ calls[3].record_id = 42
    /\ zone_record_ids["www"] = 42

\* ------------------------------------------------------------------ C7
\* C7: at the end of a cycle whose resolution succeeded the results have one
\* entry per label of the Target Set; the entry of s is True if and only if
\* s was already current or the provider confirmed a write for s in the
\* cycle; the applied IP of a True entry is the resolved IP and that of a
\* False entry is what it was before the cycle; and main's failed list holds
\* exactly the False entries.
C7_ResultSet ==
    (CycleDone /\ resolution = "ok") =>
        /\ DOMAIN results = Range(subdomains)
        /\ \A s \in Range(subdomains) :
            /\ results[s] <=> (ips_before[s] = new_ip \/ WriteConfirmed(s))
            /\ results[s] => current_ips[s] = new_ip
            /\ ~results[s] => current_ips[s] = ips_before[s]
        /\ pc # "report" => Range(failed) = {s \in Range(subdomains) : ~results[s]}

\* The scenario of the specification: "www" moved to 2.2.2.2, "@" failed.
C7_Witness ==
    /\ pc = "sleep" /\ resolution = "ok"
    /\ subdomains = <<"www", "@">>
    /\ ips_before = [s \in {"www", "@"} |-> "1.1.1.1"]
    /\ new_ip = "2.2.2.2"
    /\ results = [s \in {"www", "@"} |-> s = "www"]
    /\ current_ips = [s \in {"www", "@"} |-> IF s = "www" THEN "2.2.2.2" ELSE "1.1.1.1"]
    /\ failed = <<"@">>

\* ------------------------------------------------------------------ C8
\* C8: once the loop is entered the process has no terminal state: in every
\* state past startup some step is possible.
C8_NoTerminalState ==
    pc \notin {"main", "config_error"} => ENABLED Next

\* ------------------------------------------------------------------ C9
\* The required inputs as the specification states them: credentials, domain
\* and subdomain list present and not empty, and a polling interval that is
\* a positive number.
RequiredInputsValid ==
    /\ \A k \in {"LOOPIA_PASSWORD", "LOOPIA_USERNAME", "LOOPIA_DOMAIN",
                 "LOOPIA_SUBDOMAINS", "LOOPIA_UPDATE_INTERVAL"} :
        Truthy(get_value_by_key(result, k))
    /\ ~PyInt(get_value_by_key(result, "LOOPIA_UPDATE_INTERVAL")).raised
    /\ PyInt(get_value_by_key(result, "LOOPIA_UPDATE_INTERVAL")).value > 0

\* C9: with a required input absent or invalid the process never enters the
\* loop: it resolves no IP and issues no provider call.
C9_InvalidConfigNeverRuns ==
    ~RequiredInputsValid =>
        /\ pc \in {"main", "config_error"}
        /\ resolution = "none"
        /\ calls = <<>>

\* ----------------------------------------------------------------- C10
\* C10: past startup, a step changes current_ips[s] only if it is the write
\* step of update_dns_record for s and the provider answered it with OK, and
\* the new value is that write's rdata; the steps of update_dns_record for s
\* change neither map at any other subdomain; every other step (resolution,
\* skip, entry, return, report, sleep) changes neither map.
C10_Step ==
    pc # "main" =>
        /\ \A s \in DOMAIN current_ips :
            current_ips'[s] # current_ips[s] =>
                /\ pc = "write" /\ subdomains[idx] = s
                /\ Len(calls') = Len(calls) + 1
                /\ calls'[Len(calls')].op \in WriteOps
                /\ calls'[Len(calls')].sub = s
                /\ calls'[Len(calls')].status = "OK"
                /\ current_ips'[s] = calls'[Len(calls')].rdata
        /\ pc \in {"lookup", "write"} =>
            \A u \in DOMAIN current_ips \ {subdomains[idx]} :
                /\ current_ips'[u] = current_ips[u]
                /\ zone_record_ids'[u] = zone_record_ids[u]
        /\ pc \notin {"lookup", "write"} => UNCHANGED maps

C10_AppliedIpFrame == [][C10_Step]_vars

\* A write for one subdomain has just been confirmed while the other one,
\* not yet evaluated, keeps the IP and the identity of an earlier cycle.
C10_Witness ==
    /\ pc = "loop" /\ calls # <<>>
    /\ calls[Len(calls)].op \in WriteOps /\ calls[Len(calls)].status = "OK"
    /\ LET s == calls[Len(calls)].sub
       IN /\ current_ips[s] = new_ip /\ ips_before[s] \in IPs \ {new_ip}
          /\ \E u \in Range(subdomains) \ {s} :
                /\ current_ips[u] \in IPs \ {new_ip}
                /\ current_ips[u] = ips_before[u]
                /\ zone_record_ids[u] \in RecordIds

\* ---------------------------------------------------------------- C11
\* C11: until the first successful resolution since startup no subdomain has
\* an applied IP, and at the end of the cycle of that first successful
\* resolution update_dns_record has been called for every subdomain of the
\* list, whatever the lookups returned.
C11_FirstCycleWritesAll ==
    /\ first_ok = "before" => \A s \in DOMAIN current_ips : current_ips[s] = None
    /\ first_ok = "first" => \A s \in DOMAIN ips_before : ips_before[s] = None
    /\ (first_ok = "first" /\ CycleDone) =>
           \A s \in Range(subdomains) : Invocations(s) # {}

\* The first cycle whose resolution succeeded has ended: both subdomains were
\* written, one onto a record the provider held, one as a new record.
C11_Witness ==
    /\ first_ok = "first" /\ pc = "sleep" /\ failed = <<>>
    /\ subdomains = <<"www", "@">>
    /\ Invocations("www") # {} /\ Invocations("@") # {}
    /\ \E k \in DOMAIN calls : calls[k].op = "updateZoneRecord"
    /\ \E k \in DOMAIN calls : calls[k].op = "addZoneRecord"

\* ---------------------------------------------------------------- C12
\* One step of the resolver as C12 describes it: the first service is queried
\* first; a service that answers 200 with a JSON IP ends the loop at once and
\* its IP becomes new_ip; after any other answer the next service in the list
\* is queried; the resolution fails only on the last service's failure.
C12_Step ==
    /\ pc = "cycle" => pc' = "resolve" /\ svc' = 1
    /\ pc = "resolve" =>
           IF response'.kind = "json"
           THEN pc' = "got_ip" /\ svc' = svc /\ resolution' = resolution
           ELSE IF svc < NumServices
           THEN pc' = "resolve" /\ svc' = svc + 1 /\ resolution' = resolution
           ELSE resolution' = "failed" /\ pc' = "report"
    /\ pc = "got_ip" =>
           /\ response.kind = "json"
           /\ new_ip' = response.ip /\ resolution' = "ok" /\ pc' = "loop"
    /\ resolution' # resolution /\ resolution' = "failed" =>
           pc = "resolve" /\ svc = NumServices /\ response'.kind # "json"

\* C12: get_public_ip queries the services in list order, returns the IP of
\* the first one that succeeds without querying a later one, and raises only
\* when every service of the list has failed.
C12_ResolveOrder == [][C12_Step]_vars

\* The first service failed, the second answered, and its IP is being
\* returned with the third service not queried.
C12_Witness ==
    /\ pc = "got_ip" /\ svc = 2
    /\ response.kind = "json" /\ response.ip = "2.2.2.2"

\* ---------------------------------------------------------------- C13
\* C13 as stated: a service that answers 200 with the IP in its body, as a
\* JSON object or as plain text, makes get_public_ip return that IP.
C13_BothShapesAccepted ==
    response.kind \in {"json", "text"} => pc = "got_ip"

\* One step of the resolver on the two body shapes.
C13_Step ==
    /\ (pc = "resolve" /\ response'.kind = "json") =>
           pc' = "got_ip" /\ svc' = svc
    /\ pc = "got_ip" => response.kind = "json" /\ new_ip' = response.ip
    /\ (pc = "resolve" /\ response'.kind = "text") =>
           /\ pc' # "got_ip" /\ new_ip' = None
           /\ IF svc < NumServices THEN pc' = "resolve" /\ svc' = svc + 1
                                   ELSE resolution' = "failed"

\* C13, amended: a 200 answer whose body is a JSON object with the IP under
\* 'ip' makes get_public_ip return that IP; a 200 answer whose body is the IP
\* as plain text is not accepted: the service counts as failed and the next
\* one is queried, or the resolution fails if it was the last.
C13_JsonOnly == [][C13_Step]_vars

\* The first service answered 200 with the IP as plain text; the second
\* service is about to be queried.
C13_Witness ==
    /\ pc = "resolve" /\ svc = 2
    /\ response = [kind |-> "text", ip |-> "1.1.1.1"]

\* ---------------------------------------------------------------- C14
\* One step inside update_dns_record: it either goes from the lookup to the
\* write or returns to the loop, never to the except clause of
\* update_all_records; and the value it returns, stored in results, is True
\* exactly when the call just made is a create or update answered "OK".
C14_Step ==
    pc \in {"lookup", "write"} =>
        /\ pc' \in {"write", "loop"}
        /\ pc' = "write" => pc = "lookup" /\ results' = results /\ idx' = idx
        /\ pc' = "loop" =>
             LET s == subdomains[idx]
                 last == calls'[Len(calls')]
             IN /\ idx' = idx + 1
                /\ last.sub = s
                /\ DOMAIN results' = DOMAIN results \cup {s}
                /\ results'[s] <=> (last.op \in WriteOps /\ last.status = "OK")
                /\ \A k \in DOMAIN results \ {s} : results'[k] = results[k]

\* C14: update_dns_record returns True if and only if addZoneRecord or
\* updateZoneRecord returned exactly "OK"; a raising lookup, a raising write
\* and any other status make it return False, and no exception leaves it.
C14_WriterResult == [][C14_Step]_vars

\* The end of update_all_records in a cycle where the write of "www" was
\* answered "OK" and the write of "@" was answered with another status.
C14_Witness ==
    /\ pc = "report" /\ resolution = "ok"
    /\ \E k \in DOMAIN calls :
         calls[k].op \in WriteOps /\ calls[k].sub = "www" /\ calls[k].status = "OK"
    /\ \E k \in DOMAIN calls :
         calls[k].op \in WriteOps /\ calls[k].sub = "@" /\ calls[k].status = "AUTH_ERROR"
    /\ results = [s \in {"www", "@"} |-> s = "www"]

\* ---------------------------------------------------------------- C15
\* The provider calls of the invocation logged at position k: those logged
\* after k with no later invocation in between.
CallsOf(k) ==
    {j \in DOMAIN calls :
        /\ j > k /\ calls[j].op \in ProviderOps
        /\ \A i \in (k + 1)..j : calls[i].op # "update_dns_record"}

\* The invocation logged at position k has returned.
Returned(k) == k < Len(calls) \/ pc \notin {"lookup", "write"}

\* C15: an invocation of update_dns_record that finds the identity cached
\* issues one provider call, an update, and no lookup; one that does not
\* issues at most two, a lookup first and then at most one create or update,
\* and none when the lookup raised; no invocation issues a second create or
\* update.
C15_CallsPerInvocation ==
    \A k \in DOMAIN calls :
        calls[k].op = "update_dns_record" =>
            LET mine == CallsOf(k)
                writes == {j \in mine : calls[j].op \in WriteOps}
                lookups == {j \in mine : calls[j].op = "getZoneRecords"}
            IN /\ \A j \in mine : calls[j].sub = calls[k].sub
               /\ Cardinality(writes) <= 1
               /\ IF calls[k].record_id # NoneId
                  THEN /\ lookups = {}
                       /\ \A j \in writes : calls[j].op = "updateZoneRecord"
                       /\ Returned(k) => Cardinality(mine) = 1
                  ELSE /\ Cardinality(lookups) <= 1
                       /\ \A j \in writes : lookups = {j - 1}
                       /\ Returned(k) => lookups = {k + 1}
                       /\ \A j \in lookups :
                            calls[j].status = "raised" => writes = {}

\* A cycle of two invocations: one that found the identity cached and issued
\* one call, and one that did not and issued a lookup and a create.
C15_Witness ==
    /\ CycleDone
    /\ \E k \in DOMAIN calls :
         /\ calls[k].op = "update_dns_record" /\ calls[k].record_id # NoneId
         /\ Cardinality(CallsOf(k)) = 1
    /\ \E k \in DOMAIN calls :
         /\ calls[k].op = "update_dns_record" /\ calls[k].record_id = NoneId
         /\ Cardinality(CallsOf(k)) = 2
         /\ \E j \in CallsOf(k) : calls[j].op = "addZoneRecord"

\* ---------------------------------------------------------------- C16
\* One step seen from a subdomain whose identity is populated: the identity
\* stays what it is, and a provider call issued for the subdomain in this step
\* is an update addressed by it.
C16_Step ==
    \A s \in DOMAIN zone_record_ids :
        zone_record_ids[s] # NoneId =>
            /\ zone_record_ids'[s] = zone_record_ids[s]
            /\ (Len(calls') = Len(calls) + 1
                    /\ calls'[Len(calls')].sub = s
                    /\ calls'[Len(calls')].op \in ProviderOps) =>
                  /\ calls'[Len(calls')].op = "updateZoneRecord"
                  /\ calls'[Len(calls')].record_id = zone_record_ids[s]

\* C16: once zone_record_ids[s] is populated it never changes and is never
\* cleared, whatever later writes answer, and every later provider call for s
\* is an update addressed by that identity.
C16_IdentityStable == [][C16_Step]_vars

\* The identity of "www" was 41 before the cycle; its update, addressed by
\* 41, was refused, and the identity is still 41.
C16_Witness ==
    /\ CycleDone /\ first_ok = "later"
    /\ "www" \in DOMAIN ids_before /\ ids_before["www"] = 41
    /\ \E k \in DOMAIN calls :
         /\ calls[k].op = "updateZoneRecord" /\ calls[k].sub = "www"
         /\ calls[k].record_id = 41 /\ calls[k].status # "OK"
    /\ zone_record_ids["www"] = 41

\* ---------------------------------------------------------------- C17
\* One step seen from a failed write: a subdomain is not passed over while
\* the resolved IP is one whose latest write for it failed, and outside the
\* loop of update_all_records nothing is called.
C17_Step ==
    /\ (pc = "loop" /\ idx' = idx + 1) =>
           <<subdomains[idx], new_ip>> \notin unapplied
    /\ pc \notin {"loop", "lookup", "write"} => calls' \in {calls, <<>>}

\* C17: after update_dns_record returned False for s with IP x, every cycle
\* whose resolution succeeds with x calls update_dns_record for s again, until
\* a write of x for s succeeds; s is called once per cycle at most (for a list
\* of distinct labels) and never between cycles.
C17_RetryNextCycle ==
    /\ [](\A p \in unapplied : current_ips[p[1]] # p[2])
    /\ [](Distinct(subdomains) =>
            \A s \in Range(subdomains) : Cardinality(Invocations(s)) <= 1)
    /\ [][C17_Step]_vars

\* The write of 2.2.2.2 for "www" failed in an earlier cycle; this cycle
\* resolved 2.2.2.2 again and update_dns_record is called for "www" again.
C17_Witness ==
    /\ first_ok = "later" /\ pc \in {"lookup", "write"}
    /\ subdomains[idx] = "www" /\ new_ip = "2.2.2.2"
    /\ <<"www", "2.2.2.2">> \in unapplied
    /\ "www" \in attempted

\* ---------------------------------------------------------------- C18
\* One step of the thread as C18 orders a cycle.
C18_Step ==
    \* the resolver is entered from the top of the loop of main only, and the
    \* top of the loop is reached from startup or from a completed sleep only
    /\ pc' = "cycle" => pc \in {"main", "sleep"}
    /\ (pc' = "resolve" /\ pc # "resolve") => pc = "cycle"
    /\ pc' = "got_ip" => pc = "resolve"
    \* the loop over the subdomains starts at the first one, after the resolver
    /\ (pc' = "loop" /\ pc \notin {"loop", "lookup", "write"}) =>
           pc = "got_ip" /\ idx' = 1
    \* one subdomain at a time, in list order, with the one resolved IP
    /\ pc \in {"loop", "lookup", "write"} =>
           /\ new_ip' = new_ip
           /\ idx' \in {idx, idx + 1}
           /\ (pc' = "loop" /\ pc # "loop") => idx' = idx + 1
           /\ pc' \in {"lookup", "write"} => idx' = idx
           /\ calls' # calls =>
                LET call == calls'[Len(calls')]
                IN /\ calls' = Append(calls, call)
                   /\ call.sub = subdomains[idx]
                   /\ call.op \in WriteOps \cup {"update_dns_record"} =>
                        call.rdata = new_ip
    \* update_all_records returns, and the sleep follows, only after the last
    \* subdomain or after a failed resolution
    /\ pc' = "report" => \/ pc = "loop" /\ idx = Len(subdomains) + 1
                         \/ pc = "resolve" /\ resolution' = "failed"
    /\ pc' = "sleep" => pc = "report"

\* C18: each cycle calls get_public_ip once, before any provider call; the
\* subdomains are then evaluated one at a time in list order, every create or
\* update carrying the resolved IP; the sleep starts after the last subdomain
\* and the next resolution after the sleep.
C18_CycleOrder ==
    /\ [](pc \in {"resolve", "got_ip"} => calls = <<>>)
    /\ [][C18_Step]_vars

\* About to sleep after a cycle over <<"@", "www">> that wrote "@" first and
\* "www" second, both with the resolved IP.
C18_Witness ==
    /\ pc = "sleep" /\ resolution = "ok" /\ new_ip = "2.2.2.2"
    /\ subdomains = <<"@", "www">>
    /\ Len(calls) >= 4
    /\ calls[1].op = "update_dns_record" /\ calls[1].sub = "@"
    /\ \E k \in 2..Len(calls) :
         calls[k].op = "update_dns_record" /\ calls[k].sub = "www"
    /\ \A k \in DOMAIN calls : calls[k].op \in WriteOps => calls[k].rdata = "2.2.2.2"

\* ---------------------------------------------------------------- C19
\* Every create of the history is the third call of its invocation: the
\* invocation found no identity cached, and its lookup, logged just before
\* the create and for the same subdomain, returned no record.
C19_CreateAfterEmptyLookup ==
    \A k \in DOMAIN calls :
        calls[k].op = "addZoneRecord" =>
            /\ k > 2
            /\ calls[k].record_id = 0
            /\ calls[k - 1].op = "getZoneRecords"
            /\ calls[k - 1].sub = calls[k].sub
            /\ calls[k - 1].status = "returned"
            /\ calls[k - 1].record_id = 0
            /\ calls[k - 2].op = "update_dns_record"
            /\ calls[k - 2].sub = calls[k].sub
            /\ calls[k - 2].record_id = NoneId

\* A step that issues a create for a subdomain finds the faithful provider
\* holding no record for it.
C19_Step ==
    (faithful /\ Len(calls') = Len(calls) + 1
        /\ calls'[Len(calls')].op = "addZoneRecord") =>
            calls'[Len(calls')].sub \notin held

\* C19: a create is issued only right after the invocation's own lookup
\* returned no record, never with a cached identity; so against a provider
\* whose lookups report the records it holds, no record is created for a
\* subdomain that already has one, also after a create that was carried out
\* but answered with a failure or not at all.
C19_NoDuplicateRecord ==
    /\ []C19_CreateAfterEmptyLookup
    /\ [][C19_Step]_vars

\* The create for "www" was carried out but never confirmed; in a later cycle
\* the lookup found the record, and the update addressed to it is next.
C19_Witness ==
    /\ faithful /\ first_ok = "later"
    /\ pc = "write" /\ subdomains[idx] = "www"
    /\ "www" \in created /\ current_ips["www"] = None
    /\ record_id \in RecordIds /\ zone_record_ids["www"] = record_id

\* ---------------------------------------------------------------- C20
\* The environment is stable and every subdomain has the stable IP applied.
Converged ==
    /\ stable # None
    /\ \A s \in Range(subdomains) : current_ips[s] = stable

\* Once converged the program stays converged and calls nothing.
C20_Step == Converged => Converged' /\ calls' \in {calls, <<>>}

\* C20: if from the top of some cycle on every resolution returns the same IP
\* and every provider call succeeds, then eventually every subdomain has that
\* IP applied, and from then on no cycle calls update_dns_record or the
\* provider.
C20_ConvergesAndRests ==
    /\ (stable # None) ~> Converged
    /\ [][C20_Step]_vars

\* A cycle after convergence has ended with nothing called: both subdomains
\* have the stable IP applied, after writes that had failed before the
\* environment became stable.
C20_Witness ==
    /\ Converged /\ stable = "2.2.2.2"
    /\ pc = "sleep" /\ resolution = "ok" /\ calls = <<>>
    /\ Len(subdomains) = 2 /\ Distinct(subdomains)
    /\ unapplied # {}

====
